---- MODULE Spec2Model ----
(***************************************************************************)
(* TokenHandler of TwitchTS: the two credential slots (App Access Token,   *)
(* User Access Token), their renewal secrets, their setInterval timers and *)
(* the token requests awaiting a response from id.twitch.tv.               *)
(*                                                                         *)
(* One step of the model is one run-to-completion block of the event loop: *)
(* a public method up to its first await on the network, the continuation  *)
(* of refreshAppAccessToken / refreshUserAccessToken after axios.post      *)
(* settles, or an interval timer calling its callback.                     *)
(***************************************************************************)
EXTENDS Integers, FiniteSets, Sequences, TLC

\* ------------------------------------------------------------------ bounds
MaxTimers == 2           \* interval handles that can run at the same time
MaxInflight == 2         \* token requests awaiting their response at once
MaxExpiresMinutes == 120 \* largest expires_in tried by SpecExpiry, in minutes
MaxClientIdLength == 12  \* longest clientId tried by SpecConstruct

\* --------------------------------------------------------------- constants
Undefined == "undefined"   \* the value of an unset optional string
NoTimer == 0               \* an unset NodeJS.Timer field
MsPerSecond == 1000
SafetyMarginMs == 3600000         \* 1000 * 60 * 60
AppRefreshIntervalMs == 864000000 \* 1000 * 60 * 60 * 24 * 10
MinClientIdLength == 10           \* zod.string().min(10)

Slots == {"app", "user"}
TimerIds == 1..MaxTimers

ResponseTokens == {"t1", "t2"}      \* response.data.access_token
AssignedTokens == {"x"}             \* values handed to the token setters
AssignedSecrets == {Undefined, "n"} \* values handed to the secret setters
ExpirySamples == {1800, 14400}      \* response.data.expires_in
ExpiryInputs == {60 * m : m \in 0..MaxExpiresMinutes}
Flags == {Undefined, "true", "false"} \* an optional boolean option

\* A client id of n characters.
RECURSIVE ClientIdOfLength(_)
ClientIdOfLength(n) == IF n = 0 THEN "" ELSE ClientIdOfLength(n - 1) \o "c"

\* The client ids tried, and the one the handler of Spec is built with.
ClientIds == {ClientIdOfLength(n) : n \in 0..MaxClientIdLength}
ShortestValidClientId == ClientIdOfLength(MinClientIdLength)

isUndefined(v) == v = Undefined
isDefined(v) == v # Undefined

\* Constructor arguments (clientId, tokens?, options?).
ConstructorArgs ==
    [ clientId : ClientIds,
      appAccessToken : {Undefined, "a0"},
      userAccessToken : {Undefined, "u0"},
      refreshToken : {Undefined, "r0"},
      clientSecret : {Undefined, "s0"},
      refreshAppAccessToken : Flags,
      refreshUserAccessToken : Flags ]

\* The arguments the handler of Spec is built from.
AllConfigs == {c \in ConstructorArgs : c.clientId = ShortestValidClientId}

\* A slot is bare when none of its three arguments is given, and full when
\* all three are, with the refresh flag true.
AppBare(c) ==
    /\ isUndefined(c.appAccessToken) /\ isUndefined(c.clientSecret)
    /\ isUndefined(c.refreshAppAccessToken)
AppFull(c) ==
    /\ isDefined(c.appAccessToken) /\ isDefined(c.clientSecret)
    /\ c.refreshAppAccessToken = "true"
UserBare(c) ==
    /\ isUndefined(c.userAccessToken) /\ isUndefined(c.refreshToken)
    /\ isUndefined(c.refreshUserAccessToken)
UserFull(c) ==
    /\ isDefined(c.userAccessToken) /\ isDefined(c.refreshToken)
    /\ c.refreshUserAccessToken = "true"

\* new TwitchAPI({clientId, clientSecret, tokens: {userToken},
\* options: {refreshAppToken: true}}), the construction of the test suites.
TestConfig ==
    [ clientId |-> ShortestValidClientId,
      appAccessToken |-> Undefined, userAccessToken |-> "u0",
      refreshToken |-> Undefined, clientSecret |-> "s0",
      refreshAppAccessToken |-> "true", refreshUserAccessToken |-> Undefined ]

\* The constructions tried: every combination of one slot's arguments with
\* the other slot bare, both slots full, and the test suites' construction.
Configs ==
    {c \in AllConfigs : \/ AppBare(c) \/ UserBare(c)
                        \/ (AppFull(c) /\ UserFull(c))
                        \/ c = TestConfig}

VARIABLES
    cfg,        \* the constructor arguments (never change)
    this,       \* the private fields of the TokenHandler
    intervals,  \* Node's interval timers: handle -> callback and delay
    inflight,   \* token requests awaiting axios.post: kind -> how many
    initPc,     \* where the running init() call stands
    initLog,    \* per slot, what an init() did that ran undisturbed
    pristine,   \* only the constructor and init() have run so far
    race,       \* per slot, how overlapping startXTokenRefresh calls stand
    last,       \* the step that led to this state
    expires_in  \* response.data.expires_in of the latest user-slot response

vars == <<cfg, this, intervals, inflight, initPc, initLog, pristine, race,
          last, expires_in>>

\* ----------------------------------------------------------------- timers
NoInterval == [cb |-> "none", delay |-> 0]

ActiveTimers(T, s) == {h \in TimerIds : T[h].cb = s}

clearInterval(T, h) ==
    IF h \in TimerIds THEN [T EXCEPT ![h] = NoInterval] ELSE T

\* Handles a new timer of the slot can get: not running, and not the handle
\* the other slot's field still holds.
FreeTimers(th, T, slot) ==
    {h \in TimerIds :
        /\ T[h].cb = "none"
        /\ h # (IF slot = "app" THEN th._refreshTokenInterval
                ELSE th._appAccessTokenInterval)}

Lowest(S) == CHOOSE x \in S : \A y \in S : x <= y

setInterval(T, h, slot, delay) ==
    [T EXCEPT ![h] = [cb |-> slot, delay |-> delay]]

\* --------------------------------------------------------------- requests
\* A token request: the slot, the call it belongs to, and the refreshOnce
\* argument of the renewal routine that awaits it.
Origins == {"init", "start", "renew", "setter", "tick"}

Req(slot, origin, refreshOnce) ==
    [slot |-> slot, origin |-> origin, refreshOnce |-> refreshOnce]

ReqKinds ==
    {r \in [slot : Slots, origin : Origins, refreshOnce : {Undefined, "true"}] :
        r.refreshOnce = "true" <=> r.origin = "renew"}

NoReq == Req("none", "none", Undefined)

Pending(infl) == {r \in ReqKinds : infl[r] > 0}

InflightCount(infl) ==
    Cardinality({p \in ReqKinds \X (1..(MaxInflight + 1)) : p[2] <= infl[p[1]]})

\* axios.post: the request is put in flight.
Post(infl, r) == [infl EXCEPT ![r] = @ + 1]

\* The request leaves when its response arrives.
Settle(infl, r) == [infl EXCEPT ![r] = @ - 1]

\* startXTokenRefresh calls of the slot still awaiting their response.
Starts(infl, slot) == infl[Req(slot, "start", Undefined)]

\* ------------------------------------------------------------ constructor
\* Mutant: the validator is off by one, min(11).
clientIdRejected_OffByOne(clientId) == Len(clientId) <= MinClientIdLength

\* zod.string().min(10).parse(clientId) throws a ZodError.
clientIdRejected(clientId) == Len(clientId) < MinClientIdLength

\* Mutant: the initial-refresh flags look at the secrets only.
constructor_FlagIgnored(c) ==
    [ _clientId |-> c.clientId,
      _clientSecret |-> c.clientSecret,
      _appAccessToken |-> c.appAccessToken,
      _refreshToken |-> Undefined,
      _userAccessToken |-> c.userAccessToken,
      _refreshTokenInterval |-> NoTimer,
      _appAccessTokenInterval |-> NoTimer,
      _initialUserAccessTokenRefresh |-> isDefined(c.refreshToken),
      _initialAppAccessTokenRefresh |-> isDefined(c.clientSecret) ]

constructor(c) ==
    [ _clientId |-> c.clientId,
      _clientSecret |-> c.clientSecret,
      _appAccessToken |-> c.appAccessToken,
      _refreshToken |-> Undefined,
      _userAccessToken |-> c.userAccessToken,
      _refreshTokenInterval |-> NoTimer,
      _appAccessTokenInterval |-> NoTimer,
      _initialUserAccessTokenRefresh |->
          isDefined(c.refreshToken) /\ (isDefined(c.refreshUserAccessToken)
                                        /\ c.refreshUserAccessToken = "true"),
      _initialAppAccessTokenRefresh |->
          isDefined(c.clientSecret) /\ (isDefined(c.refreshAppAccessToken)
                                        /\ c.refreshAppAccessToken = "true") ]

NoLog == [reqs |-> 0, res |-> "none", token |-> Undefined]
EmptyLog == [s \in Slots |-> NoLog]

\* A step of the program: the call, its argument, and whether an error
\* left it (threw); for a response also the request, token and race.
Step(op, arg) ==
    [op |-> op, arg |-> arg, req |-> NoReq, token |-> Undefined, race |-> "no",
     threw |-> FALSE]

Init ==
    /\ cfg \in Configs
    /\ ~clientIdRejected(cfg.clientId)
    /\ this = constructor(cfg)
    /\ intervals = [h \in TimerIds |-> NoInterval]
    /\ inflight = [r \in ReqKinds |-> 0]
    /\ initPc = "idle"
    /\ initLog = EmptyLog
    /\ pristine = TRUE
    /\ race = [s \in Slots |-> "no"]
    /\ last = Step("constructor", Undefined)
    /\ expires_in = 0

\* ---------------------------------------------------- the renewal routines
\* refreshAppAccessToken up to its await: the missing-secret guard, then the
\* client_credentials request.
refreshAppAccessTokenCall(th, infl, origin, refreshOnce) ==
    IF isUndefined(th._clientSecret) THEN infl
    ELSE Post(infl, Req("app", origin, refreshOnce))

\* refreshUserAccessToken up to its await: the missing-refresh-token guard,
\* then the refresh_token request.
refreshUserAccessTokenCall(th, infl, origin, refreshOnce) ==
    IF isUndefined(th._refreshToken) THEN infl
    ELSE Post(infl, Req("user", origin, refreshOnce))

\* A request can be put in flight only while the model has room for it.
CanCall(secret, infl) ==
    isUndefined(secret) \/ InflightCount(infl) < MaxInflight

\* expiresIn - (1000 * 60 * 60), the delay handed to setInterval.
userRefreshDelay(e) == e * MsPerSecond - SafetyMarginMs

\* Mutant: the old interval is not cleared before the new one is set.
refreshAppAccessTokenThen_NoClear(th, T, refreshOnce, token) ==
    LET th1 == [th EXCEPT !._appAccessToken = token]
        free == FreeTimers(th1, T, "app")
    IN  IF isDefined(refreshOnce) \/ free = {}
        THEN [this |-> th1, intervals |-> T]
        ELSE [this |-> [th1 EXCEPT !._appAccessTokenInterval = Lowest(free)],
              intervals |-> setInterval(T, Lowest(free), "app",
                                        AppRefreshIntervalMs)]

\* Mutant: a response is dropped when an interval of the slot already runs.
refreshAppAccessTokenThen_SkipIfRunning(th, T, refreshOnce, token) ==
    LET th1 == [th EXCEPT !._appAccessToken = token]
        T1 == IF th1._appAccessTokenInterval # NoTimer
              THEN clearInterval(T, th1._appAccessTokenInterval) ELSE T
        h == Lowest(FreeTimers(th1, T1, "app"))
    IN  IF ActiveTimers(T, "app") # {} THEN [this |-> th, intervals |-> T]
        ELSE IF isDefined(refreshOnce) THEN [this |-> th1, intervals |-> T]
        ELSE [this |-> [th1 EXCEPT !._appAccessTokenInterval = h],
              intervals |-> setInterval(T1, h, "app", AppRefreshIntervalMs)]

\* Mutant: the refreshOnce test is inverted, a recurring renewal never arms.
refreshAppAccessTokenThen_NeverArms(th, T, refreshOnce, token) ==
    LET th1 == [th EXCEPT !._appAccessToken = token]
        T1 == IF th1._appAccessTokenInterval # NoTimer
              THEN clearInterval(T, th1._appAccessTokenInterval) ELSE T
        h == Lowest(FreeTimers(th1, T1, "app"))
    IN  IF isUndefined(refreshOnce) THEN [this |-> th1, intervals |-> T]
        ELSE [this |-> [th1 EXCEPT !._appAccessTokenInterval = h],
              intervals |-> setInterval(T1, h, "app", AppRefreshIntervalMs)]

\* Mutant: a successful renewal clears the interval and sets none.
refreshAppAccessTokenThen_ClearsOnly(th, T, refreshOnce, token) ==
    LET th1 == [th EXCEPT !._appAccessToken = token]
        T1 == IF th1._appAccessTokenInterval # NoTimer
              THEN clearInterval(T, th1._appAccessTokenInterval) ELSE T
    IN  IF isDefined(refreshOnce) THEN [this |-> th1, intervals |-> T]
        ELSE [this |-> th1, intervals |-> T1]

\* Mutant: refreshOnce is ignored, every successful renewal arms a timer.
refreshAppAccessTokenThen_AlwaysArms(th, T, refreshOnce, token) ==
    LET th1 == [th EXCEPT !._appAccessToken = token]
        T1 == IF th1._appAccessTokenInterval # NoTimer
              THEN clearInterval(T, th1._appAccessTokenInterval) ELSE T
        free == FreeTimers(th1, T1, "app")
    IN  IF free = {} THEN [this |-> th1, intervals |-> T1]
        ELSE [this |-> [th1 EXCEPT !._appAccessTokenInterval = Lowest(free)],
              intervals |-> setInterval(T1, Lowest(free), "app",
                                        AppRefreshIntervalMs)]

\* Mutant: the App renewal stores its token in both slots.
refreshAppAccessTokenThen_WritesUserToken(th, T, refreshOnce, token) ==
    LET th1 == [th EXCEPT !._appAccessToken = token,
                          !._userAccessToken = token]
        T1 == IF th1._appAccessTokenInterval # NoTimer
              THEN clearInterval(T, th1._appAccessTokenInterval) ELSE T
        h == Lowest(FreeTimers(th1, T1, "app"))
    IN  IF isDefined(refreshOnce) THEN [this |-> th1, intervals |-> T]
        ELSE [this |-> [th1 EXCEPT !._appAccessTokenInterval = h],
              intervals |-> setInterval(T1, h, "app", AppRefreshIntervalMs)]

\* refreshAppAccessToken after a successful response.
refreshAppAccessTokenThen(th, T, refreshOnce, token) ==
    LET th1 == [th EXCEPT !._appAccessToken = token]
        T1 == IF th1._appAccessTokenInterval # NoTimer
              THEN clearInterval(T, th1._appAccessTokenInterval) ELSE T
        h == Lowest(FreeTimers(th1, T1, "app"))
    IN  IF isDefined(refreshOnce) THEN [this |-> th1, intervals |-> T]
        ELSE [this |-> [th1 EXCEPT !._appAccessTokenInterval = h],
              intervals |-> setInterval(T1, h, "app", AppRefreshIntervalMs)]

\* The setInterval part of refreshUserAccessToken, for expires_in = e.
armUserInterval(th, T, e) ==
    LET T1 == IF th._refreshTokenInterval # NoTimer
              THEN clearInterval(T, th._refreshTokenInterval) ELSE T
        h == Lowest(FreeTimers(th, T1, "user"))
    IN  [this |-> [th EXCEPT !._refreshTokenInterval = h],
         intervals |-> setInterval(T1, h, "user", userRefreshDelay(e))]

\* refreshUserAccessToken after a successful response.
refreshUserAccessTokenThen(th, T, refreshOnce, token, e) ==
    LET th1 == [th EXCEPT !._userAccessToken = token]
    IN  IF isDefined(refreshOnce) THEN [this |-> th1, intervals |-> T]
        ELSE armUserInterval(th1, T, e)

\* Mutant: a failed renewal drops the cached tokens.
refreshAccessTokenCatch_DropsToken(th, T) ==
    [this |-> [th EXCEPT !._appAccessToken = Undefined,
                         !._userAccessToken = Undefined],
     intervals |-> T, threw |-> FALSE]

\* Mutant: the catch block stops the intervals.
refreshAccessTokenCatch_ClearsTimers(th, T) ==
    [this |-> th, intervals |-> [h \in TimerIds |-> NoInterval],
     threw |-> FALSE]

\* Mutant: the catch block throws the error on.
refreshAccessTokenCatch_Rethrows(th, T) ==
    [this |-> th, intervals |-> T, threw |-> TRUE]

\* The catch block of both routines: console.error(err), nothing else; the
\* promise of the routine resolves.
refreshAccessTokenCatch(th, T) ==
    [this |-> th, intervals |-> T, threw |-> FALSE]

\* What a step other than init()'s own does to the record of init().
NotInit ==
    /\ pristine' = FALSE
    /\ initLog' = EmptyLog
    /\ initPc' = IF initPc = "done" THEN "idle" ELSE initPc

\* How a new start call changes the slot's race: it overlaps the start
\* calls of the slot that are still awaiting.
RaceOnStart(slot, issued) ==
    [race EXCEPT ![slot] =
        IF issued /\ Starts(inflight, slot) > 0 THEN "pending" ELSE @]

\* How the response to a start call changes the slot's race.
RaceOnSettle(r, ok) ==
    IF r.origin # "start" THEN race
    ELSE [race EXCEPT ![r.slot] =
            IF Starts(inflight, r.slot) = 1 THEN "no"
            ELSE IF ~ok THEN "peerFail"
            ELSE IF @ = "peerFail" THEN "peerFail" ELSE "peerOk"]

\* ------------------------------------------------------------------ init()
\* The second half of init(): the User Access Token renewal.
\* Mutant: init() awaits a user renewal whether or not one was started.
initUserPart_AlwaysAwaits(th, infl) ==
    IF th._initialUserAccessTokenRefresh
    THEN [inflight |-> refreshUserAccessTokenCall(th, infl, "init", Undefined),
          pc |-> "awaitUser",
          reqs |-> IF isUndefined(th._refreshToken) THEN 0 ELSE 1]
    ELSE [inflight |-> infl, pc |-> "done", reqs |-> 0]

initUserPart(th, infl) ==
    IF th._initialUserAccessTokenRefresh
    THEN [inflight |-> refreshUserAccessTokenCall(th, infl, "init", Undefined),
          pc |-> IF isUndefined(th._refreshToken) THEN "done" ELSE "awaitUser",
          reqs |-> IF isUndefined(th._refreshToken) THEN 0 ELSE 1]
    ELSE [inflight |-> infl, pc |-> "done", reqs |-> 0]

\* Mutant: init() does not await the App renewal before its user part.
init_NoAwait ==
    /\ initPc \in {"idle", "done"}
    /\ CanCall(this._clientSecret, inflight)
    /\ inflight' = IF this._initialAppAccessTokenRefresh
                   THEN refreshAppAccessTokenCall(this, inflight, "init",
                                                  Undefined)
                   ELSE inflight
    /\ initPc' = "user"
    /\ initLog' = [s \in Slots |->
          IF pristine /\ s = "app" /\ this._initialAppAccessTokenRefresh
                      /\ isDefined(this._clientSecret)
          THEN [NoLog EXCEPT !.reqs = 1] ELSE NoLog]
    /\ last' = Step("init", Undefined)
    /\ UNCHANGED <<cfg, this, intervals, pristine, race, expires_in>>

\* Mutant: init() renews the App Access Token whatever the flag and secret.
init_Unguarded ==
    /\ initPc \in {"idle", "done"}
    /\ InflightCount(inflight) < MaxInflight
    /\ inflight' = Post(inflight, Req("app", "init", Undefined))
    /\ initPc' = "awaitApp"
    /\ initLog' = [s \in Slots |->
          IF pristine /\ s = "app"
          THEN [NoLog EXCEPT !.reqs = 1] ELSE NoLog]
    /\ last' = Step("init", Undefined)
    /\ UNCHANGED <<cfg, this, intervals, pristine, race, expires_in>>

init ==
    /\ initPc \in {"idle", "done"}
    /\ IF this._initialAppAccessTokenRefresh
       THEN /\ CanCall(this._clientSecret, inflight)
            /\ inflight' = refreshAppAccessTokenCall(this, inflight, "init",
                                                     Undefined)
            /\ initPc' = IF isUndefined(this._clientSecret)
                         THEN "user" ELSE "awaitApp"
            /\ initLog' = [s \in Slots |->
                  IF pristine /\ s = "app" /\ isDefined(this._clientSecret)
                  THEN [NoLog EXCEPT !.reqs = 1] ELSE NoLog]
       ELSE LET u == initUserPart(this, inflight)
            IN  /\ this._initialUserAccessTokenRefresh
                      => CanCall(this._refreshToken, inflight)
                /\ inflight' = u.inflight
                /\ initPc' = u.pc
                /\ initLog' = [s \in Slots |->
                      IF pristine /\ s = "user"
                      THEN [NoLog EXCEPT !.reqs = u.reqs] ELSE NoLog]
    /\ last' = Step("init", Undefined)
    /\ UNCHANGED <<cfg, this, intervals, pristine, race, expires_in>>

\* init() resumes after `await this.refreshAppAccessToken()`.
initResume ==
    /\ initPc = "user"
    /\ LET u == initUserPart(this, inflight)
       IN  /\ this._initialUserAccessTokenRefresh
                 => CanCall(this._refreshToken, inflight)
           /\ inflight' = u.inflight
           /\ initPc' = u.pc
           /\ initLog' = IF pristine
                         THEN [initLog EXCEPT !["user"].reqs = u.reqs]
                         ELSE EmptyLog
    /\ last' = Step("initResume", Undefined)
    /\ UNCHANGED <<cfg, this, intervals, pristine, race, expires_in>>

\* ------------------------------------------------------------ public API
cancelUserInterval(th, T) ==
    IF th._refreshTokenInterval # NoTimer
    THEN clearInterval(T, th._refreshTokenInterval) ELSE T

\* Mutant: the interval of the App slot is never cleared.
cancelAppInterval_Keeps(th, T) == T

cancelAppInterval(th, T) ==
    IF th._appAccessTokenInterval # NoTimer
    THEN clearInterval(T, th._appAccessTokenInterval) ELSE T

stopUserTokenRefresh ==
    /\ intervals' = cancelUserInterval(this, intervals)
    /\ NotInit
    /\ last' = Step("stopUserTokenRefresh", Undefined)
    /\ UNCHANGED <<cfg, this, inflight, race, expires_in>>

startUserTokenRefresh ==
    /\ CanCall(this._refreshToken, inflight)
    /\ intervals' = cancelUserInterval(this, intervals)
    /\ inflight' = IF isDefined(this._refreshToken)
                   THEN refreshUserAccessTokenCall(this, inflight, "start",
                                                   Undefined)
                   ELSE inflight
    /\ race' = RaceOnStart("user", isDefined(this._refreshToken))
    /\ NotInit
    /\ last' = Step("startUserTokenRefresh", Undefined)
    /\ UNCHANGED <<cfg, this, expires_in>>

\* Mutant: stopping the App renewal also forgets the cached token.
stopAppTokenRefresh_ClearsToken ==
    /\ intervals' = cancelAppInterval(this, intervals)
    /\ this' = [this EXCEPT !._appAccessToken = Undefined]
    /\ NotInit
    /\ last' = Step("stopAppTokenRefresh", Undefined)
    /\ UNCHANGED <<cfg, inflight, race, expires_in>>

stopAppTokenRefresh ==
    /\ intervals' = cancelAppInterval(this, intervals)
    /\ NotInit
    /\ last' = Step("stopAppTokenRefresh", Undefined)
    /\ UNCHANGED <<cfg, this, inflight, race, expires_in>>

\* Mutant: startAppTokenRefresh leaves the running interval alone.
startAppTokenRefresh_KeepsTimer ==
    /\ CanCall(this._clientSecret, inflight)
    /\ intervals' = intervals
    /\ inflight' = IF isDefined(this._clientSecret)
                   THEN refreshAppAccessTokenCall(this, inflight, "start",
                                                  Undefined)
                   ELSE inflight
    /\ race' = RaceOnStart("app", isDefined(this._clientSecret))
    /\ NotInit
    /\ last' = Step("startAppTokenRefresh", Undefined)
    /\ UNCHANGED <<cfg, this, expires_in>>

\* Mutant: neither startAppTokenRefresh nor the request looks at the secret.
startAppTokenRefresh_NoSecretCheck ==
    /\ InflightCount(inflight) < MaxInflight
    /\ intervals' = cancelAppInterval(this, intervals)
    /\ inflight' = Post(inflight, Req("app", "start", Undefined))
    /\ race' = RaceOnStart("app", TRUE)
    /\ NotInit
    /\ last' = Step("startAppTokenRefresh", Undefined)
    /\ UNCHANGED <<cfg, this, expires_in>>

startAppTokenRefresh ==
    /\ CanCall(this._clientSecret, inflight)
    /\ intervals' = cancelAppInterval(this, intervals)
    /\ inflight' = IF isDefined(this._clientSecret)
                   THEN refreshAppAccessTokenCall(this, inflight, "start",
                                                  Undefined)
                   ELSE inflight
    /\ race' = RaceOnStart("app", isDefined(this._clientSecret))
    /\ NotInit
    /\ last' = Step("startAppTokenRefresh", Undefined)
    /\ UNCHANGED <<cfg, this, expires_in>>

renewAppAccessToken ==
    /\ CanCall(this._clientSecret, inflight)
    /\ inflight' = refreshAppAccessTokenCall(this, inflight, "renew", "true")
    /\ NotInit
    /\ last' = Step("renewAppAccessToken", Undefined)
    /\ UNCHANGED <<cfg, this, intervals, race, expires_in>>

renewUserAccessToken ==
    /\ CanCall(this._refreshToken, inflight)
    /\ inflight' = refreshUserAccessTokenCall(this, inflight, "renew", "true")
    /\ NotInit
    /\ last' = Step("renewUserAccessToken", Undefined)
    /\ UNCHANGED <<cfg, this, intervals, race, expires_in>>

\* Mutant: assigning the App Access Token also stops the App interval.
setAppAccessToken_StopsTimer(token) ==
    /\ this' = [this EXCEPT !._appAccessToken = token]
    /\ intervals' = cancelAppInterval(this, intervals)
    /\ NotInit
    /\ last' = Step("setAppAccessToken", token)
    /\ UNCHANGED <<cfg, inflight, race, expires_in>>

\* set appAccessToken(token)
setAppAccessToken(token) ==
    /\ this' = [this EXCEPT !._appAccessToken = token]
    /\ NotInit
    /\ last' = Step("setAppAccessToken", token)
    /\ UNCHANGED <<cfg, intervals, inflight, race, expires_in>>

\* set userToken(token)
setUserToken(token) ==
    /\ this' = [this EXCEPT !._userAccessToken = token]
    /\ NotInit
    /\ last' = Step("setUserToken", token)
    /\ UNCHANGED <<cfg, intervals, inflight, race, expires_in>>

\* set refreshToken(token)
setRefreshToken(token) ==
    /\ IF ~isUndefined(token)
       THEN /\ intervals' = cancelUserInterval(this, intervals)
            /\ this' = [this EXCEPT !._refreshToken = Undefined]
            /\ inflight' = inflight
       ELSE LET tokenWasSet == isDefined(this._refreshToken)
                th1 == [this EXCEPT !._refreshToken = token]
            IN  /\ tokenWasSet => CanCall(th1._refreshToken, inflight)
                /\ this' = th1
                /\ inflight' = IF tokenWasSet
                               THEN refreshUserAccessTokenCall(th1, inflight,
                                                       "setter", Undefined)
                               ELSE inflight
                /\ intervals' = intervals
    /\ NotInit
    /\ last' = Step("setRefreshToken", token)
    /\ UNCHANGED <<cfg, race, expires_in>>

\* set clientSecret(secret)
setClientSecret(secret) ==
    /\ IF ~isUndefined(secret)
       THEN /\ intervals' = cancelAppInterval(this, intervals)
            /\ this' = [this EXCEPT !._clientSecret = Undefined]
            /\ inflight' = inflight
       ELSE LET secretWasSet == isDefined(this._clientSecret)
                th1 == [this EXCEPT !._clientSecret = secret]
            IN  /\ secretWasSet => CanCall(th1._clientSecret, inflight)
                /\ this' = th1
                /\ inflight' = IF secretWasSet
                               THEN refreshAppAccessTokenCall(th1, inflight,
                                                       "setter", Undefined)
                               ELSE inflight
                /\ intervals' = intervals
    /\ NotInit
    /\ last' = Step("setClientSecret", secret)
    /\ UNCHANGED <<cfg, race, expires_in>>

\* -------------------------------------------------- timers and transport
\* An interval timer calls its bound callback, without arguments.
intervalFires ==
    \E h \in TimerIds :
        /\ intervals[h].cb # "none"
        /\ IF intervals[h].cb = "app"
           THEN /\ CanCall(this._clientSecret, inflight)
                /\ inflight' = refreshAppAccessTokenCall(this, inflight, "tick",
                                                         Undefined)
           ELSE /\ CanCall(this._refreshToken, inflight)
                /\ inflight' = refreshUserAccessTokenCall(this, inflight, "tick",
                                                          Undefined)
        /\ NotInit
        /\ last' = Step("intervalFires", intervals[h].cb)
        /\ UNCHANGED <<cfg, this, intervals, race, expires_in>>

\* axios.post settles and the awaiting renewal routine runs to its end.
tokenResponse ==
    \E req \in Pending(inflight), ok \in BOOLEAN :
    \E token \in IF ok THEN ResponseTokens ELSE {Undefined},
       e \in IF ok /\ req.slot = "user" THEN ExpirySamples ELSE {0} :
        LET arms == ok /\ isUndefined(req.refreshOnce)
            cleared == IF req.slot = "app"
                       THEN cancelAppInterval(this, intervals)
                       ELSE cancelUserInterval(this, intervals)
            r == IF ~ok THEN refreshAccessTokenCatch(this, intervals)
                 ELSE IF req.slot = "app"
                      THEN refreshAppAccessTokenThen(this, intervals,
                                                     req.refreshOnce, token)
                      ELSE refreshUserAccessTokenThen(this, intervals,
                                                 req.refreshOnce, token, e)
        IN  /\ arms => FreeTimers(this, cleared, req.slot) # {}
            /\ this' = r.this
            /\ intervals' = r.intervals
            /\ inflight' = Settle(inflight, req)
            /\ race' = RaceOnSettle(req, ok)
            /\ expires_in' = IF arms /\ req.slot = "user" THEN e ELSE expires_in
            /\ IF req.origin = "init"
               THEN /\ initPc' = IF req.slot = "app" THEN "user" ELSE "done"
                    /\ pristine' = pristine
                    /\ initLog' =
                         IF pristine
                         THEN [initLog EXCEPT
                                 ![req.slot].res = IF ok THEN "ok" ELSE "fail",
                                 ![req.slot].token = token]
                         ELSE EmptyLog
               ELSE NotInit
            /\ last' = [op |-> IF ok THEN "responseOk" ELSE "responseFail",
                        arg |-> Undefined, req |-> req,
                        token |-> token,
                        race |-> IF req.origin = "start" THEN race[req.slot]
                                 ELSE "no",
                        threw |-> IF ok THEN FALSE ELSE r.threw]
            /\ cfg' = cfg

Next ==
    \/ init
    \/ initResume
    \/ stopUserTokenRefresh
    \/ startUserTokenRefresh
    \/ stopAppTokenRefresh
    \/ startAppTokenRefresh
    \/ renewAppAccessToken
    \/ renewUserAccessToken
    \/ \E token \in AssignedTokens \cup {Undefined} : setAppAccessToken(token)
    \/ \E token \in AssignedTokens : setUserToken(token)
    \/ \E token \in AssignedSecrets : setRefreshToken(token)
    \/ \E secret \in AssignedSecrets : setClientSecret(secret)
    \/ intervalFires
    \/ tokenResponse

Spec == Init /\ [][Next]_vars

\* The request r is answered.
tokenResponseTo(r) == tokenResponse /\ last'.req = r

\* The requests a call of init, startXTokenRefresh or renewXAccessToken
\* awaits.
CallKinds == {r \in ReqKinds : r.origin \in {"init", "start", "renew"}}

\* The constructions the calls are tried on: nothing given, everything
\* given, and the test suites' construction.
CallConfigs ==
    {c \in Configs : \/ (AppBare(c) /\ UserBare(c))
                     \/ (AppFull(c) /\ UserFull(c))
                     \/ c = TestConfig}

InitCalls == Init /\ cfg \in CallConfigs

\* The calls that await a renewal, the timers and the transport.
NextCalls ==
    \/ init
    \/ initResume
    \/ startUserTokenRefresh
    \/ startAppTokenRefresh
    \/ renewAppAccessToken
    \/ renewUserAccessToken
    \/ intervalFires
    \/ tokenResponse

\* Every token request of a call is answered, and an init() that can go on
\* does: nothing is assumed about timers or about further calls.
SpecAnswered ==
    /\ InitCalls
    /\ [][NextCalls]_vars
    /\ WF_vars(initResume)
    /\ \A r \in CallKinds : WF_vars(tokenResponseTo(r))

\* ------------------------------------------------ the expiry computation
\* The delay refreshUserAccessToken hands to setInterval, tried on its own
\* for every expires_in of ExpiryInputs.
InitExpiry ==
    /\ cfg \in {c \in Configs : AppBare(c) /\ UserFull(c)}
    /\ this = constructor(cfg)
    /\ intervals = [h \in TimerIds |-> NoInterval]
    /\ inflight = [r \in ReqKinds |-> 0]
    /\ initPc = "idle"
    /\ initLog = EmptyLog
    /\ pristine = TRUE
    /\ race = [s \in Slots |-> "no"]
    /\ last = Step("constructor", Undefined)
    /\ expires_in \in ExpiryInputs

scheduleUserRefresh ==
    /\ ActiveTimers(intervals, "user") = {}
    /\ LET r == armUserInterval(this, intervals, expires_in)
       IN  /\ this' = r.this
           /\ intervals' = r.intervals
    /\ last' = Step("armUserInterval", Undefined)
    /\ UNCHANGED <<cfg, inflight, initPc, initLog, pristine, race, expires_in>>

NextExpiry == scheduleUserRefresh

SpecExpiry == InitExpiry /\ [][NextExpiry]_vars

\* ------------------------------------------------ the recurring renewal
\* The handler once startAppTokenRefresh has succeeded, left to its timer:
\* the interval fires and the requests are answered; the program may assign
\* the cached token, and calls nothing else.
InitTicking ==
    /\ cfg \in {c \in Configs : isDefined(c.clientSecret)}
    /\ \E token \in ResponseTokens :
         LET r == refreshAppAccessTokenThen(constructor(cfg),
                      [h \in TimerIds |-> NoInterval], Undefined, token)
         IN  /\ this = r.this
             /\ intervals = r.intervals
             /\ last = [op |-> "responseOk", arg |-> Undefined,
                        req |-> Req("app", "start", Undefined),
                        token |-> token, race |-> "no", threw |-> FALSE]
    /\ inflight = [r \in ReqKinds |-> 0]
    /\ initPc = "idle"
    /\ initLog = EmptyLog
    /\ pristine = FALSE
    /\ race = [s \in Slots |-> "no"]
    /\ expires_in = 0

NextTicking ==
    \/ intervalFires
    \/ tokenResponse
    \/ \E token \in AssignedTokens \cup {Undefined} : setAppAccessToken(token)

\* A request is answered successfully.
tokenResponseOk == tokenResponse /\ last'.op = "responseOk"

\* The timer of a running interval keeps firing, every request is answered
\* and is answered successfully again and again.
SpecTicking ==
    /\ InitTicking
    /\ [][NextTicking]_vars
    /\ WF_vars(intervalFires)
    /\ WF_vars(tokenResponse)
    /\ SF_vars(tokenResponseOk)

\* ------------------------------------------------------- the construction
\* `new TokenHandler(clientId, tokens, options)` tried on its own, for every
\* combination of arguments and every client id of ClientIds.
NoHandler == [constructed |-> FALSE]

InitConstruct ==
    /\ cfg \in ConstructorArgs
    /\ this = NoHandler
    /\ intervals = [h \in TimerIds |-> NoInterval]
    /\ inflight = [r \in ReqKinds |-> 0]
    /\ initPc = "idle"
    /\ initLog = EmptyLog
    /\ pristine = TRUE
    /\ race = [s \in Slots |-> "no"]
    /\ last = Step("new", Undefined)
    /\ expires_in = 0

\* The constructor runs: the client id is validated first, then the fields
\* are assigned; no request is sent and no interval is set.
construct ==
    /\ last.op = "new"
    /\ IF clientIdRejected(cfg.clientId)
       THEN /\ this' = this
            /\ last' = [Step("ZodError", cfg.clientId) EXCEPT !.threw = TRUE]
       ELSE /\ this' = constructor(cfg)
            /\ last' = Step("constructor", Undefined)
    /\ UNCHANGED <<cfg, intervals, inflight, initPc, initLog, pristine, race,
                   expires_in>>

NextConstruct == construct

SpecConstruct == InitConstruct /\ [][NextConstruct]_vars

\* ----------------------------------------------------------------- claims
secretOf(th, s) == IF s = "app" THEN th._clientSecret ELSE th._refreshToken
tokenOf(th, s) == IF s = "app" THEN th._appAccessToken ELSE th._userAccessToken
StartOp(s) ==
    IF s = "app" THEN "startAppTokenRefresh" ELSE "startUserTokenRefresh"
SetSecretOp(s) == IF s = "app" THEN "setClientSecret" ELSE "setRefreshToken"

\* C1: in every reachable state each credential slot has at most one
\* active (installed and not cancelled) recurring renewal timer.
C1_AtMostOneTimerPerSlot ==
    \A s \in Slots : Cardinality(ActiveTimers(intervals, s)) <= 1

\* A renewal started by a timer tick has just re-armed the App timer.
C1_Witness ==
    /\ last.op = "responseOk"
    /\ last.req = Req("app", "tick", Undefined)
    /\ Cardinality(ActiveTimers(intervals, "app")) = 1

\* C2: when two overlapping startAppTokenRefresh calls both succeed, then
\* once the second response is handled exactly one App timer is active and
\* appAccessToken is the token of that last response.
C2_OverlappingStartsLastWins ==
    ( /\ last.op = "responseOk"
      /\ last.req = Req("app", "start", Undefined)
      /\ last.race = "peerOk"
      /\ Starts(inflight, "app") = 0 )
    => /\ Cardinality(ActiveTimers(intervals, "app")) = 1
       /\ this._appAccessToken = last.token

\* The second of two overlapping, successful start calls has resolved.
C2_Witness ==
    /\ last.op = "responseOk"
    /\ last.req = Req("app", "start", Undefined)
    /\ last.race = "peerOk"
    /\ Starts(inflight, "app") = 0

\* C3: a startXTokenRefresh call made while the slot's renewal secret is
\* absent issues no request, installs no timer for the slot and leaves the
\* slot's cached token as it was.
C3_StartWithoutSecretIsInert ==
    [][ \A s \in Slots :
          (last'.op = StartOp(s) /\ isUndefined(secretOf(this, s)))
          => /\ inflight' = inflight
             /\ ActiveTimers(intervals', s) \subseteq ActiveTimers(intervals, s)
             /\ tokenOf(this', s) = tokenOf(this, s) ]_vars

\* startAppTokenRefresh has run without a client secret, a token cached.
C3_Witness ==
    /\ last.op = "startAppTokenRefresh"
    /\ isUndefined(this._clientSecret)
    /\ isDefined(this._appAccessToken)

\* C4: assigning undefined to a slot's secret setter leaves the slot with
\* no active timer and no stored secret.
C4_ClearingSecretCancelsTimer ==
    \A s \in Slots :
        (last.op = SetSecretOp(s) /\ last.arg = Undefined)
        => /\ ActiveTimers(intervals, s) = {}
           /\ isUndefined(secretOf(this, s))

\* C5: a slot has an active timer only while its renewal secret is present.
C5_TimerOnlyWithSecret ==
    \A s \in Slots :
        ActiveTimers(intervals, s) # {} => isDefined(secretOf(this, s))

\* C6: the two steps of a renewal attempt whose transport call fails, the
\* one that issues the request and the one that handles the failure, leave
\* both cached tokens as they were.
C6_FailedRenewalKeepsToken ==
    [][ ( \/ last'.op = "responseFail"
          \/ InflightCount(inflight') > InflightCount(inflight) )
        => /\ this'._appAccessToken = this._appAccessToken
           /\ this'._userAccessToken = this._userAccessToken ]_vars

\* A renewal of the App slot has failed and a cached token is still there.
C6_Witness ==
    /\ last.op = "responseFail"
    /\ last.req.slot = "app"
    /\ isDefined(this._appAccessToken)

\* C7: the delay with which a successful recurring user-slot renewal
\* reporting expires_in = E schedules the next one is greater than 0 and at
\* most E * 1000 milliseconds.
C7_UserDelayPositive ==
    \A h \in TimerIds :
        intervals[h].cb = "user"
        => /\ intervals[h].delay > 0
           /\ intervals[h].delay <= expires_in * MsPerSecond

InitResolvedUndisturbed == initPc = "done" /\ pristine

InitRenewed(s) ==
    /\ initLog[s].reqs = 1
    /\ initLog[s].res = "ok"
         => /\ tokenOf(this, s) = initLog[s].token
            /\ Cardinality(ActiveTimers(intervals, s)) = 1

\* C8: constructed with a refresh token and refreshUserAccessToken = true,
\* init() issues exactly one user-slot request before it resolves, and on
\* its success userAccessToken is the returned token and exactly one user
\* timer is active.
C8_InitRenewsUserToken ==
    ( /\ InitResolvedUndisturbed
      /\ isDefined(cfg.refreshToken)
      /\ cfg.refreshUserAccessToken = "true" )
    => InitRenewed("user")

\* C9: constructed with a client secret and refreshAppAccessToken = true,
\* init() issues exactly one App-slot request before it resolves, and on
\* its success appAccessToken is the returned token and exactly one App
\* timer is active.
C9_InitRenewsAppToken ==
    ( /\ InitResolvedUndisturbed
      /\ isDefined(cfg.clientSecret)
      /\ cfg.refreshAppAccessToken = "true" )
    => InitRenewed("app")

\* Such an init() has resolved after a successful App renewal.
C9_Witness ==
    /\ InitResolvedUndisturbed
    /\ isDefined(cfg.clientSecret)
    /\ cfg.refreshAppAccessToken = "true"
    /\ initLog["app"].res = "ok"

\* C10: a client secret (a refresh token) given at construction is enough
\* for init() to renew the App (User) Access Token: one request is issued
\* for the slot and on its success a recurring timer is installed, whatever
\* the refresh flags.
C10_SecretAloneStartsRenewal ==
    InitResolvedUndisturbed
    => /\ isDefined(cfg.clientSecret) => InitRenewed("app")
       /\ isDefined(cfg.refreshToken) => InitRenewed("user")

flagOf(c, s) ==
    IF s = "app" THEN c.refreshAppAccessToken ELSE c.refreshUserAccessToken
givenTokenOf(c, s) ==
    IF s = "app" THEN c.appAccessToken ELSE c.userAccessToken
givenSecretOf(c, s) == IF s = "app" THEN c.clientSecret ELSE c.refreshToken
intervalOf(th, s) ==
    IF s = "app" THEN th._appAccessTokenInterval ELSE th._refreshTokenInterval
otherSlot(s) == IF s = "app" THEN "user" ELSE "app"
StopOp(s) ==
    IF s = "app" THEN "stopAppTokenRefresh" ELSE "stopUserTokenRefresh"
RenewOps == {"renewAppAccessToken", "renewUserAccessToken"}
ResponseOps == {"responseOk", "responseFail"}
PendingOf(infl, s) == {r \in Pending(infl) : r.slot = s}

\* C11: constructed with a valid client id and nothing else, init()
\* resolves without having issued a token request and without a timer on
\* either slot, and both cached tokens are still undefined.
C11_BareInitIsInert ==
    (InitResolvedUndisturbed /\ AppBare(cfg) /\ UserBare(cfg))
    => /\ this._clientId = cfg.clientId
       /\ InflightCount(inflight) = 0
       /\ \A s \in Slots :
            /\ initLog[s].reqs = 0
            /\ ActiveTimers(intervals, s) = {}
            /\ isUndefined(tokenOf(this, s))

\* init() has resolved for the handler constructed with a client id only.
C11_Witness ==
    /\ InitResolvedUndisturbed
    /\ last.op = "init"
    /\ AppBare(cfg) /\ UserBare(cfg)
    /\ Len(cfg.clientId) >= MinClientIdLength

C13_ConstructorStoresArguments ==
    last.op = "constructor"
    => \A s \in Slots :
         /\ tokenOf(this, s) = givenTokenOf(cfg, s)
         /\ secretOf(this, s) = givenSecretOf(cfg, s)

\* C14: assigning a defined value to a slot's secret while the slot holds
\* a secret restarts the slot's renewal: the new secret is stored and one
\* token request is issued for the slot.
C14_SetSecretRestartsRenewal ==
    [][ \A s \in Slots :
          ( /\ last'.op = SetSecretOp(s)
            /\ isDefined(last'.arg)
            /\ isDefined(secretOf(this, s)) )
          => /\ secretOf(this', s) = last'.arg
             /\ inflight' = Post(inflight, Req(s, "setter", Undefined)) ]_vars

\* C15: after a defined value v is assigned to a slot's secret, the slot's
\* stored secret is v.
C15_AssignedSecretIsStored ==
    \A s \in Slots :
        (last.op = SetSecretOp(s) /\ isDefined(last.arg))
        => secretOf(this, s) = last.arg

\* C16: stopXTokenRefresh leaves the slot without an active timer and
\* changes nothing else; called with no timer active, or right after
\* another stop call of the slot, it changes no state of the handler.
C16_StopIsIdempotent ==
    [][ \A s \in Slots :
          last'.op = StopOp(s)
          => /\ ActiveTimers(intervals', s) = {}
             /\ \A h \in TimerIds \ ActiveTimers(intervals, s) :
                    intervals'[h] = intervals[h]
             /\ this' = this
             /\ inflight' = inflight
             /\ ActiveTimers(intervals, s) = {} => intervals' = intervals
             /\ last.op = StopOp(s) => intervals' = intervals ]_vars

\* stopAppTokenRefresh has cancelled the timer the App slot had.
C16_Witness ==
    /\ last.op = "stopAppTokenRefresh"
    /\ this._appAccessTokenInterval # NoTimer
    /\ ActiveTimers(intervals, "app") = {}

\* C17: neither the call of renewXAccessToken nor the handling of its
\* response installs or cancels a timer of either slot; a failed response
\* changes nothing, a successful one only the slot's cached token.
C17_RenewOnceLeavesTimers ==
    [][ /\ last'.op \in RenewOps
           => (intervals' = intervals /\ this' = this)
        /\ (last'.op \in ResponseOps /\ last'.req.origin = "renew")
           => /\ intervals' = intervals
              /\ last'.op = "responseFail" => this' = this
              /\ last'.op = "responseOk"
                 => this' = IF last'.req.slot = "app"
                            THEN [this EXCEPT !._appAccessToken = last'.token]
                            ELSE [this EXCEPT !._userAccessToken = last'.token]
      ]_vars

\* A single-shot App renewal has succeeded while the App timer runs.
C17_Witness ==
    /\ last.op = "responseOk"
    /\ last.req = Req("app", "renew", "true")
    /\ this._appAccessToken = last.token
    /\ Cardinality(ActiveTimers(intervals, "app")) = 1

\* C18: no step of the running handler (init, start, stop, renew, the
\* setters, a timer tick, the handling of a response or of a transport
\* failure) ends with an error leaving the handler.
C18_NoRuntimeErrorEscapes == ~last.threw

\* The request of a timer tick has failed and the routine has returned.
C18_Witness ==
    /\ last.op = "responseFail"
    /\ last.req = Req("app", "tick", Undefined)
    /\ ~last.threw

\* C19: issuing a slot's token request and handling its response, success
\* or failure, leave the other slot's cached token, secret and timer as
\* they were; after a failed App renewal init() goes on to the user part.
C19_SlotsAreIsolated ==
    [][ /\ \A s \in Slots :
             ( \/ (last'.op \in ResponseOps /\ last'.req.slot = s)
               \/ \E r \in ReqKinds : r.slot = s /\ inflight'[r] > inflight[r] )
             => /\ tokenOf(this', otherSlot(s)) = tokenOf(this, otherSlot(s))
                /\ secretOf(this', otherSlot(s)) = secretOf(this, otherSlot(s))
                /\ intervalOf(this', otherSlot(s))
                       = intervalOf(this, otherSlot(s))
                /\ \A h \in TimerIds :
                       (intervals[h].cb = otherSlot(s)
                            \/ intervals'[h].cb = otherSlot(s))
                       => intervals'[h] = intervals[h]
        /\ (last'.op = "responseFail" /\ last'.req = Req("app", "init", Undefined))
           => initPc' = "user" ]_vars

\* The App renewal of init() has failed, the user token is untouched and
\* init() is about to run its user part.
C19_Witness ==
    /\ last.op = "responseFail"
    /\ last.req = Req("app", "init", Undefined)
    /\ isDefined(this._userAccessToken)
    /\ this._userAccessToken = cfg.userAccessToken
    /\ initPc = "user"

\* C20: the constructor throws, leaving no handler, no timer and no
\* request, exactly when the client id has fewer than 10 characters; with
\* 10 or more it succeeds whatever tokens, secrets and flags are given.
C20_ConstructionFailsIffShortId ==
    last.op # "new"
    => /\ last.op = "ZodError" <=> Len(cfg.clientId) < 10
       /\ last.op = "ZodError"
          => /\ last.threw
             /\ this = NoHandler
             /\ InflightCount(inflight) = 0
             /\ \A s \in Slots : ActiveTimers(intervals, s) = {}
       /\ last.op # "ZodError"
          => /\ last.op = "constructor"
             /\ ~last.threw
             /\ this # NoHandler
             /\ this._clientId = cfg.clientId

\* A client id of 9 characters was rejected and one of 10 is accepted by
\* the same validation, here with every token, secret and flag supplied.
C20_Witness ==
    /\ last.op = "ZodError"
    /\ Len(cfg.clientId) = MinClientIdLength - 1
    /\ AppFull(cfg) /\ UserFull(cfg)

SetTokenOp(s) == IF s = "app" THEN "setAppAccessToken" ELSE "setUserToken"
RenewOp(s) ==
    IF s = "app" THEN "renewAppAccessToken" ELSE "renewUserAccessToken"

\* C21: assigning a slot's cached token stores the assigned value and
\* changes nothing else: no timer, no secret, not the other slot's token,
\* and no token request is issued.
C21_TokenSetterOnlyOverwrites ==
    [][ \A s \in Slots :
          last'.op = SetTokenOp(s)
          => /\ tokenOf(this', s) = last'.arg
             /\ this' = IF s = "app"
                        THEN [this EXCEPT !._appAccessToken = last'.arg]
                        ELSE [this EXCEPT !._userAccessToken = last'.arg]
             /\ intervals' = intervals
             /\ inflight' = inflight ]_vars

\* The App Access Token was assigned while the App timer runs and a
\* renewal of the slot awaits its response.
C21_Witness ==
    /\ last.op = "setAppAccessToken"
    /\ this._appAccessToken = last.arg
    /\ isDefined(last.arg)
    /\ ActiveTimers(intervals, "app") # {}
    /\ PendingOf(inflight, "app") # {}

\* C22: in the step that follows a stopXTokenRefresh call, unless that step
\* is a call of init, of startXTokenRefresh or of the slot's secret setter,
\* the slot still has no active timer.
C22_NoTimerAfterStop ==
    [][ \A s \in Slots :
          ( /\ last.op = StopOp(s)
            /\ last'.op \notin {"init", StartOp(s), SetSecretOp(s)} )
          => ActiveTimers(intervals', s) = {} ]_vars

\* C23: at most one renewal started by a timer tick of a slot awaits its
\* response at any time.
C23_TicksNeverOverlap ==
    \A s \in Slots : inflight[Req(s, "tick", Undefined)] <= 1

\* C24: startXTokenRefresh with the secret present leaves the slot without
\* a timer and the token as it was, and when the failure of its request is
\* handled with nothing else of the slot in between, the slot still has no
\* timer and the token it had before the call.
C24_FailedStartLeavesNoTimer ==
    [][ \A s \in Slots :
          /\ (last'.op = StartOp(s) /\ isDefined(secretOf(this, s)))
             => /\ ActiveTimers(intervals', s) = {}
                /\ tokenOf(this', s) = tokenOf(this, s)
          /\ ( /\ last.op = StartOp(s)
               /\ PendingOf(inflight, s) = {Req(s, "start", Undefined)}
               /\ Starts(inflight, s) = 1
               /\ last'.op = "responseFail"
               /\ last'.req = Req(s, "start", Undefined) )
             => /\ ActiveTimers(intervals', s) = {}
                /\ tokenOf(this', s) = tokenOf(this, s) ]_vars

\* The only request of the App slot, that of a startAppTokenRefresh call
\* made after a timer had been installed, has failed.
C24_Witness ==
    /\ last.op = "responseFail"
    /\ last.req = Req("app", "start", Undefined)
    /\ last.race = "no"
    /\ PendingOf(inflight, "app") = {}
    /\ this._appAccessTokenInterval # NoTimer
    /\ ActiveTimers(intervals, "app") = {}
    /\ isDefined(this._appAccessToken)

\* C25: handling the failure of a renewal started by a timer tick leaves
\* every timer and every field as it was and issues no request; requests
\* are issued by calls and ticks only, never by the handling of a response.
C25_FailedTickKeepsTimer ==
    [][ /\ (last'.op = "responseFail" /\ last'.req.origin = "tick")
           => /\ intervals' = intervals
              /\ this' = this
              /\ inflight' = Settle(inflight, last'.req)
        /\ last'.op \in ResponseOps
           => \A r \in ReqKinds : inflight'[r] <= inflight[r] ]_vars

\* A tick's renewal of the App slot has failed and the App timer runs on.
C25_Witness ==
    /\ last.op = "responseFail"
    /\ last.req = Req("app", "tick", Undefined)
    /\ Cardinality(ActiveTimers(intervals, "app")) = 1
    /\ this._appAccessTokenInterval \in ActiveTimers(intervals, "app")

\* C26: with the slot's secret absent, startXTokenRefresh and
\* renewXAccessToken issue no request and leave every field and every timer
\* as it was.
C26_NoSecretNoChange ==
    [][ \A s \in Slots :
          ( /\ last'.op \in {StartOp(s), RenewOp(s)}
            /\ isUndefined(secretOf(this, s)) )
          => /\ inflight' = inflight
             /\ this' = this
             /\ intervals' = intervals ]_vars

\* C27: a slot's cached token changes only when a successful response for
\* the slot is handled or the slot's token setter is called.
C27_TokenChangesOnlyByRenewalOrSetter ==
    [][ \A s \in Slots :
          tokenOf(this', s) # tokenOf(this, s)
          => \/ (last'.op = "responseOk" /\ last'.req.slot = s
                    /\ tokenOf(this', s) = last'.token)
             \/ (last'.op = SetTokenOp(s) /\ tokenOf(this', s) = last'.arg)
      ]_vars

\* A successful App renewal has stored its token while the user slot holds
\* a token its setter assigned.
C27_Witness ==
    /\ last.op = "responseOk"
    /\ last.req.slot = "app"
    /\ this._appAccessToken = last.token
    /\ this._userAccessToken \in AssignedTokens

\* C28: while the App renewal of init() awaits its response, init() stands
\* at that await: its user part has not run, and no user-slot request of
\* init() is in flight together with the App one.
C28_InitRenewsSequentially ==
    inflight[Req("app", "init", Undefined)] > 0
    => /\ initPc = "awaitApp"
       /\ inflight[Req("app", "init", Undefined)] = 1
       /\ inflight[Req("user", "init", Undefined)] = 0
       /\ pristine => initLog["user"].reqs = 0

\* The App renewal of init() has completed and init() is about to run its
\* user part, the user renewal asked for at construction.
C28_Witness ==
    /\ initPc = "user"
    /\ pristine
    /\ initLog["app"].res # "none"
    /\ inflight[Req("app", "init", Undefined)] = 0
    /\ isDefined(cfg.refreshToken)
    /\ cfg.refreshUserAccessToken = "true"

\* C29: with the client secret present, the App timer running and firing,
\* and requests answered, successfully again and again, the App Access
\* Token is replaced by a newly returned token infinitely often and the App
\* slot has an active timer again and again.
C29_RenewalNeverStops ==
    /\ []<>( /\ last.op = "responseOk"
             /\ last.req = Req("app", "tick", Undefined)
             /\ this._appAccessToken = last.token )
    /\ []<>(ActiveTimers(intervals, "app") # {})

\* A renewal started by the timer has succeeded: its token is cached, the
\* secret is still there and the timer it re-installed is the field's.
C29_Witness ==
    /\ last.op = "responseOk"
    /\ last.req = Req("app", "tick", Undefined)
    /\ this._appAccessToken = last.token
    /\ isDefined(this._clientSecret)
    /\ ActiveTimers(intervals, "app") = {this._appAccessTokenInterval}

InitAwaits == initPc \in {"awaitApp", "user", "awaitUser"}
RequestsOf(infl, s) ==
    Cardinality({p \in PendingOf(infl, s) \X (1..(MaxInflight + 1)) :
                    p[2] <= infl[p[1]]})

\* C30: with every request answered, a renewal awaiting its response gets
\* to handle it and a running init() resolves; no step issues more than one
\* request for a slot, and init() issues at most one per slot.
C30_CallsResolve ==
    /\ \A r \in CallKinds :
          (inflight[r] > 0) ~> (last.op \in ResponseOps /\ last.req = r)
    /\ InitAwaits ~> (initPc = "done")
    /\ [][ \A s \in Slots :
             RequestsOf(inflight', s) <= RequestsOf(inflight, s) + 1 ]_vars
    /\ [](\A s \in Slots : initLog[s].reqs <= 1)

\* init() has resolved after its App renewal failed.
C30_Witness ==
    /\ initPc = "done"
    /\ pristine
    /\ last.op = "initResume"
    /\ initLog["app"].reqs = 1
    /\ initLog["app"].res = "fail"

====
